---- MODULE Spec2Model ----
(***************************************************************************)
(* Model of the prompt save dialog (src/unnamed/part_000): the title       *)
(* extraction heuristics, the conversation-history validator and formatter *)
(* and the form handlers around them.                                      *)
(*                                                                         *)
(* Prompt text and titles are sequences of one-character strings, so that  *)
(* the regular expressions of the source are matched position by position. *)
(* The conversation history is a sequence of JSON lexemes (punctuation,    *)
(* literals, string literals, whitespace), parsed by a recursive-descent   *)
(* parser.                                                                 *)
(*                                                                         *)
(* The login view (src/frontend/src/views/LoginView.vue) is modelled next  *)
(* to it, with its own variables: its handlers, and the calls of the auth  *)
(* store they wait for, whose outcomes are chosen by the environment.      *)
(***************************************************************************)
EXTENDS Integers, Sequences, FiniteSets, TLC

VARIABLES
    isOpen,                  \* props.isOpen
    promptContent,           \* props.promptContent
    initialTitle,            \* props.initialTitle (empty when not passed)
    formData,                \* the formData ref
    newTag,                  \* the newTag ref
    conversationFormatError, \* the conversationFormatError ref
    showConversationHelp,    \* the showConversationHelp ref
    emitted,                 \* the event emitted last
    lastAlert,               \* the text of the last alert() shown
    lastAction               \* the handler that ran last

\* The login view
VARIABLES
    serverConfig,            \* what authStore.getAuthConfig() resolves with
    isLoggedIn,              \* authStore.isLoggedIn
    mounted,                 \* onMounted has run
    authConfig,              \* the authConfig ref
    isLoading,               \* the isLoading ref
    isSubmitting,            \* the isSubmitting ref
    errorMessage,            \* the errorMessage ref
    showRegister,            \* the showRegister ref
    locationHref,            \* window.location.href
    routerPushes,            \* the paths passed to router.push
    configCall,              \* the getAuthConfig call: none, pending, or its outcome
    authCall,                \* the loginWithPassword or register call pending
    lastStep                 \* the step of the login view that ran last

dialogVars == <<isOpen, promptContent, initialTitle, formData, newTag,
                conversationFormatError, showConversationHelp, emitted,
                lastAlert, lastAction>>

loginVars == <<serverConfig, isLoggedIn, mounted, authConfig, isLoading,
               isSubmitting, errorMessage, showRegister, locationHref,
               routerPushes, configCall, authCall, lastStep>>

vars == <<dialogVars, loginVars>>

-----------------------------------------------------------------------------
(* Characters and strings                                                  *)

Min(S) == CHOOSE x \in S : \A y \in S : x <= y
Max(S) == CHOOSE x \in S : \A y \in S : x >= y

UpperCase ==
    <<"A", "B", "C", "D", "E", "F", "G", "H", "I", "J", "K", "L", "M",
      "N", "O", "P", "Q", "R", "S", "T", "U", "V", "W", "X", "Y", "Z">>
LowerCase ==
    <<"a", "b", "c", "d", "e", "f", "g", "h", "i", "j", "k", "l", "m",
      "n", "o", "p", "q", "r", "s", "t", "u", "v", "w", "x", "y", "z">>
Digits == {"0", "1", "2", "3", "4", "5", "6", "7", "8", "9"}

\* The case folding of the regular expressions' i flag.
ToLower(c) ==
    IF \E i \in 1..26 : UpperCase[i] = c
    THEN LowerCase[CHOOSE i \in 1..26 : UpperCase[i] = c]
    ELSE c

\* \s of a regular expression and the characters String.prototype.trim removes.
SpaceChars == {" ", "\t", "\n", "\r"}
IsSpace(c) == c \in SpaceChars
\* The characters the dot of a regular expression does not match.
IsLineTerminator(c) == c \in {"\n", "\r"}
IsDigit(c) == c \in Digits
\* \w of a regular expression.
WordChars ==
    Digits \cup {"_"} \cup {UpperCase[i] : i \in 1..26} \cup {LowerCase[i] : i \in 1..26}
IsWordChar(c) == c \in WordChars

\* The least index i >= from with s[i] in chars, Len(s) + 1 when there is
\* none: where a lazy quantifier or a negated class stops.
FirstIn(s, from, chars) ==
    LET hits == {i \in from..Len(s) : s[i] \in chars}
    IN  IF hits = {} THEN Len(s) + 1 ELSE Min(hits)

\* The least index i >= from with s[i] not in chars, Len(s) + 1 when there
\* is none: where a greedy quantifier over the class chars stops.
FirstNotIn(s, from, chars) ==
    LET hits == {i \in from..Len(s) : s[i] \notin chars}
    IN  IF hits = {} THEN Len(s) + 1 ELSE Min(hits)

\* String.prototype.trim
Trim(s) ==
    LET idx == {i \in 1..Len(s) : ~IsSpace(s[i])}
    IN  IF idx = {} THEN <<>> ELSE SubSeq(s, Min(idx), Max(idx))

\* lit occurs in s at position p.
StartsWithAt(s, p, lit) ==
    /\ p >= 1
    /\ p + Len(lit) - 1 <= Len(s)
    /\ \A i \in 1..Len(lit) : s[p + i - 1] = lit[i]

\* lit (given in lower case) occurs in s at position p, whatever the case.
StartsWithAtCI(s, p, lit) ==
    /\ p >= 1
    /\ p + Len(lit) - 1 <= Len(s)
    /\ \A i \in 1..Len(lit) : ToLower(s[p + i - 1]) = lit[i]

\* String.prototype.substring(start) with a 0-based start.
SubstringFrom(s, start) == SubSeq(s, start + 1, Len(s))

\* The character c n times.
Repeat(c, n) == [i \in 1..n |-> c]

\* String.prototype.split('\n')
RECURSIVE SplitLines(_)
SplitLines(s) ==
    LET i == FirstIn(s, 1, {"\n"})
    IN  IF i > Len(s)
        THEN <<s>>
        ELSE <<SubSeq(s, 1, i - 1)>> \o SplitLines(SubSeq(s, i + 1, Len(s)))

-----------------------------------------------------------------------------
(* Regular expressions of extractTitleFromContent.  A match is a record:   *)
(* found, all (the matched text) and g1 (capture group 1).                 *)

NoMatch == [found |-> FALSE, all |-> <<>>, g1 |-> <<>>]
Matched(whole, group) == [found |-> TRUE, all |-> whole, g1 |-> group]

\* String.prototype.match without the g flag: the match at the least start
\* position where the pattern matches.
\* matchAt[p] is the result of trying the pattern at position p.
RegexMatch(matchAt) ==
    LET starts == {p \in DOMAIN matchAt : matchAt[p].found}
    IN  IF starts = {} THEN NoMatch ELSE matchAt[Min(starts)]

\* /<title[^>]*>(.*?)<\/title>/i tried at position p.
TitleTagAt(s, p) ==
    LET q == FirstIn(s, p + 6, {">"})
        ends == {e \in (q + 1)..Len(s) :
                    /\ StartsWithAtCI(s, e, <<"<", "/", "t", "i", "t", "l", "e", ">">>)
                    /\ \A j \in (q + 1)..(e - 1) : ~IsLineTerminator(s[j])}
    IN  IF /\ StartsWithAtCI(s, p, <<"<", "t", "i", "t", "l", "e">>)
           /\ q <= Len(s)
           /\ ends # {}
        THEN Matched(SubSeq(s, p, Min(ends) + 7), SubSeq(s, q + 1, Min(ends) - 1))
        ELSE NoMatch

\* /<\w+\s+ATTR=["']role["'][^>]*>([^<]+)/i tried at position p, for
\* ATTR one of title, name, id, type.
AttrRoleAt(s, p, attr) ==
    LET w == FirstNotIn(s, p + 1, WordChars)
        x == FirstNotIn(s, w, SpaceChars)
        n == Len(attr)
        g == FirstIn(s, x + n + 7, {">"})
        e == FirstIn(s, g + 1, {"<"})
    IN  IF /\ p <= Len(s)
           /\ s[p] = "<"
           /\ w > p + 1
           /\ x > w
           /\ StartsWithAtCI(s, x, attr \o <<"=">>)
           /\ x + n + 6 <= Len(s)
           /\ s[x + n + 1] \in {"\"", "'"}
           /\ StartsWithAtCI(s, x + n + 2, <<"r", "o", "l", "e">>)
           /\ s[x + n + 6] \in {"\"", "'"}
           /\ g <= Len(s)
           /\ e > g + 1
        THEN Matched(SubSeq(s, p, e - 1), SubSeq(s, g + 1, e - 1))
        ELSE NoMatch

\* /<section[^>]*>[\s\n]*role:?\s*([^<]+)/i tried at position p.  The
\* optional colon and the whitespace are greedy and are given back, last
\* taken first, when the capture group would otherwise be empty.
SectionRoleAt(s, p) ==
    LET q == FirstIn(s, p + 8, {">"})
        r0 == FirstNotIn(s, q + 1, SpaceChars)
        r == r0 + 4
        colon == IF r <= Len(s) /\ s[r] = ":" THEN 1 ELSE 0
        a == r + colon
        n == FirstNotIn(s, a, SpaceChars)
        start == IF n <= Len(s) /\ s[n] # "<" THEN n
                 ELSE IF n > a THEN n - 1
                 ELSE IF colon = 1 THEN r
                 ELSE 0
        e == FirstIn(s, start, {"<"})
    IN  IF /\ StartsWithAtCI(s, p, <<"<", "s", "e", "c", "t", "i", "o", "n">>)
           /\ q <= Len(s)
           /\ StartsWithAtCI(s, r0, <<"r", "o", "l", "e">>)
           /\ start > 0
        THEN Matched(SubSeq(s, p, e - 1), SubSeq(s, start, e - 1))
        ELSE NoMatch

\* /<role[^>]*>([^<]+)/i tried at position p.
RoleTagAt(s, p) ==
    LET q == FirstIn(s, p + 5, {">"})
        e == FirstIn(s, q + 1, {"<"})
    IN  IF /\ StartsWithAtCI(s, p, <<"<", "r", "o", "l", "e">>)
           /\ q <= Len(s)
           /\ e > q + 1
        THEN Matched(SubSeq(s, p, e - 1), SubSeq(s, q + 1, e - 1))
        ELSE NoMatch

\* />([^<]+)</ tried at position p.
InterTagAt(s, p) ==
    LET e == FirstIn(s, p + 1, {"<"})
    IN  IF /\ p <= Len(s)
           /\ s[p] = ">"
           /\ e > p + 1
           /\ e <= Len(s)
        THEN Matched(SubSeq(s, p, e), SubSeq(s, p + 1, e - 1))
        ELSE NoMatch

\* StripRolePrefix matching the prefix in the written case only.
StripRolePrefixCaseSensitive(t) ==
    IF StartsWithAt(t, 1, <<"r", "o", "l", "e", ":">>)
    THEN SubSeq(t, FirstNotIn(t, 6, SpaceChars), Len(t))
    ELSE t

\* .replace(/^Role:\s*/i, '')
StripRolePrefix(t) ==
    IF StartsWithAtCI(t, 1, <<"r", "o", "l", "e", ":">>)
    THEN SubSeq(t, FirstNotIn(t, 6, SpaceChars), Len(t))
    ELSE t

\* .replace(/^(role|U+89D2 U+8272)[:U+FF1A]\s*/i, ''): the label "role" or its
\* Chinese form, then an ASCII or full-width colon.  A character outside ASCII
\* is written as the name of its code point and is one character of the text.
StripRoleLabel(t) ==
    LET n == IF StartsWithAtCI(t, 1, <<"r", "o", "l", "e">>) THEN 4
             ELSE IF StartsWithAt(t, 1, <<"U+89D2", "U+8272">>) THEN 2
             ELSE 0
    IN  IF n > 0 /\ Len(t) > n /\ t[n + 1] \in {":", "U+FF1A"}
        THEN SubSeq(t, FirstNotIn(t, n + 2, SpaceChars), Len(t))
        ELSE t

\* .replace(/^#{1,6}\s*/, '')
StripHeading(t) ==
    IF t # <<>> /\ t[1] = "#"
    THEN LET h == Min({FirstNotIn(t, 1, {"#"}), 7})
         IN  SubSeq(t, FirstNotIn(t, h, SpaceChars), Len(t))
    ELSE t

\* .replace(/^\*+\s*/, '')
StripStars(t) ==
    IF t # <<>> /\ t[1] = "*"
    THEN LET h == FirstNotIn(t, 1, {"*"})
         IN  SubSeq(t, FirstNotIn(t, h, SpaceChars), Len(t))
    ELSE t

\* .replace(/^-+\s*/, '')
StripDashes(t) ==
    IF t # <<>> /\ t[1] = "-"
    THEN LET h == FirstNotIn(t, 1, {"-"})
         IN  SubSeq(t, FirstNotIn(t, h, SpaceChars), Len(t))
    ELSE t

\* .replace(/^\d+\.\s*/, '')
StripNumbered(t) ==
    LET d == FirstNotIn(t, 1, Digits)
    IN  IF d > 1 /\ d <= Len(t) /\ t[d] = "."
        THEN SubSeq(t, FirstNotIn(t, d + 1, SpaceChars), Len(t))
        ELSE t

-----------------------------------------------------------------------------
(* extractTitleFromContent                                                 *)

\* The longest title returned without truncation.
TitleMaxLength == 50
\* The argument of substring() that drops the '# Role:' prefix.
RolePrefixSkip == 8

RolePrefix == <<"#", " ", "R", "o", "l", "e", ":">>
Ellipsis == <<".", ".", ".">>

\* `U+63D0 U+793A U+8BCD _${new Date().toLocaleDateString()}`
DefaultTitle(date) == <<"U+63D0", "U+793A", "U+8BCD", "_">> \o date

\* Step 1 of the XML branch: the <title> element.
XmlTitleTag(content) ==
    LET titleMatch == RegexMatch([p \in 1..Len(content) |-> TitleTagAt(content, p)])
    IN  IF titleMatch.found /\ titleMatch.g1 # <<>>
        THEN Trim(StripRolePrefix(Trim(titleMatch.g1)))
        ELSE <<>>

\* The title one role pattern yields: the trimmed capture without its label.
RolePatternTitle(m) ==
    IF m.found /\ m.g1 # <<>> THEN Trim(StripRoleLabel(Trim(m.g1))) ELSE <<>>

\* rolePatterns, in the order of the array.
RolePatternMatch(content, k) ==
    LET attr(name) == [p \in 1..Len(content) |-> AttrRoleAt(content, p, name)]
    IN  CASE k = 1 -> RegexMatch(attr(<<"t", "i", "t", "l", "e">>))
          [] k = 2 -> RegexMatch(attr(<<"n", "a", "m", "e">>))
          [] k = 3 -> RegexMatch(attr(<<"i", "d">>))
          [] k = 4 -> RegexMatch(attr(<<"t", "y", "p", "e">>))
          [] k = 5 -> RegexMatch([p \in 1..Len(content) |-> SectionRoleAt(content, p)])
          [] k = 6 -> RegexMatch([p \in 1..Len(content) |-> RoleTagAt(content, p)])

\* Step 2 of the XML branch: the loop over rolePatterns from pattern k on;
\* it stops at the first pattern that leaves a non-empty title.
RECURSIVE XmlRolePatterns(_, _)
XmlRolePatterns(content, k) ==
    IF k > 6
    THEN <<>>
    ELSE LET t == RolePatternTitle(RolePatternMatch(content, k))
         IN  IF t # <<>> THEN t ELSE XmlRolePatterns(content, k + 1)

\* Step 3 of the XML branch: textMatch[0] of content.match(/>([^<]+)</g)
\* without its angle brackets, trimmed.
XmlFirstText(content) ==
    LET textMatch == RegexMatch([p \in 1..Len(content) |-> InterTagAt(content, p)])
    IN  IF textMatch.found
        THEN Trim(SelectSeq(textMatch.all, LAMBDA c : c \notin {">", "<"}))
        ELSE <<>>

XmlTitle(content) ==
    LET t1 == XmlTitleTag(content)
        t2 == IF t1 # <<>> THEN t1 ELSE XmlRolePatterns(content, 1)
    IN  IF t2 # <<>> THEN t2 ELSE XmlFirstText(content)

\* The chain of replace() calls on a line that does not start with '# Role:'.
StripMarkdownMarkers(trimmedLine) ==
    Trim(StripNumbered(StripDashes(StripStars(StripHeading(trimmedLine)))))

\* The loop over the lines of the Markdown branch, from line i on.
RECURSIVE MarkdownTitle(_, _)
MarkdownTitle(lines, i) ==
    IF i > Len(lines)
    THEN <<>>
    ELSE LET trimmedLine == Trim(lines[i])
             roleContent == Trim(SubstringFrom(trimmedLine, RolePrefixSkip))
             stripped == StripMarkdownMarkers(trimmedLine)
         IN  IF trimmedLine = <<>> THEN MarkdownTitle(lines, i + 1)
             ELSE IF StartsWithAt(trimmedLine, 1, RolePrefix)
             THEN IF roleContent # <<>> THEN roleContent
                  ELSE MarkdownTitle(lines, i + 1)
             ELSE IF stripped # <<>> THEN stripped
                  ELSE MarkdownTitle(lines, i + 1)

\* TitleCandidate without the default title for an empty autoTitle.
TitleCandidateNoDefault(content, date) ==
    LET trimmed == Trim(content)
    IN  IF trimmed = <<>> THEN DefaultTitle(date)
        ELSE IF StartsWithAt(trimmed, 1, <<"<">>) THEN XmlTitle(content)
        ELSE MarkdownTitle(SplitLines(trimmed), 1)

\* autoTitle before the length limit is applied.
TitleCandidate(content, date) ==
    LET trimmed == Trim(content)
        autoTitle == IF StartsWithAt(trimmed, 1, <<"<">>)
                     THEN XmlTitle(content)
                     ELSE MarkdownTitle(SplitLines(trimmed), 1)
    IN  IF trimmed = <<>> THEN DefaultTitle(date)
        ELSE IF autoTitle = <<>> THEN DefaultTitle(date)
        ELSE autoTitle

\* LimitTitle cutting without the marker.
LimitTitleNoMarker(autoTitle) ==
    IF Len(autoTitle) > TitleMaxLength
    THEN SubSeq(autoTitle, 1, TitleMaxLength)
    ELSE autoTitle

\* The length limit.
LimitTitle(autoTitle) ==
    IF Len(autoTitle) > TitleMaxLength
    THEN SubSeq(autoTitle, 1, TitleMaxLength) \o Ellipsis
    ELSE autoTitle

extractTitleFromContent(content, date) ==
    IF Trim(content) = <<>>
    THEN DefaultTitle(date)
    ELSE LimitTitle(TitleCandidate(content, date))

-----------------------------------------------------------------------------
(* JSON.  A text is a sequence of lexemes; a parsed value is a record      *)
(* tagged by its kind k.                                                   *)

JsonWhitespace == {" ", "\n"}

\* The string literals of the texts, as written and as the string they denote.
StringLexemes ==
    <<"\"role\"", "\"content\"", "\"user\"", "\"assistant\"", "\"system\"",
      "\"bogus\"", "\"hi\"", "\"\"", "\"not\"">>
StringContents ==
    <<"role", "content", "user", "assistant", "system", "bogus", "hi", "", "not">>

IsStringLexeme(t) == \E i \in 1..Len(StringLexemes) : StringLexemes[i] = t
StringOf(t) ==
    StringContents[CHOOSE i \in 1..Len(StringLexemes) : StringLexemes[i] = t]
LexemeOf(str) ==
    StringLexemes[CHOOSE i \in 1..Len(StringContents) : StringContents[i] = str]

Undefined == [k |-> "undefined"]
Null == [k |-> "null"]
Bool(b) == [k |-> "bool", b |-> b]
Num(n) == [k |-> "num", n |-> n]
Str(str) == [k |-> "str", s |-> str]
Arr(items) == [k |-> "arr", items |-> items]
\* members: a sequence of <<key, value>> pairs with distinct keys, in
\* insertion order.
Obj(members) == [k |-> "obj", members |-> members]

\* obj[key] = value on the members of an object: a key already there keeps
\* its place and takes the new value.
SetMember(members, key, value) ==
    IF \E i \in 1..Len(members) : members[i][1] = key
    THEN [i \in 1..Len(members) |->
             IF members[i][1] = key THEN <<key, value>> ELSE members[i]]
    ELSE Append(members, <<key, value>>)

\* value.key as JavaScript reads it: undefined on anything but an object
\* that has the key (none of the keys read is a property of a string, a
\* number, a boolean or an array).
GetProperty(value, key) ==
    IF value.k = "obj" /\ \E i \in 1..Len(value.members) : value.members[i][1] = key
    THEN value.members[CHOOSE i \in 1..Len(value.members) :
                          value.members[i][1] = key][2]
    ELSE Undefined

\* ToBoolean
Truthy(value) ==
    CASE value.k = "undefined" -> FALSE
      [] value.k = "null" -> FALSE
      [] value.k = "bool" -> value.b
      [] value.k = "num" -> value.n # 0
      [] value.k = "str" -> value.s # ""
      [] OTHER -> TRUE

ParseFailure == [ok |-> FALSE, value |-> Undefined, next |-> 0]
Parsed(value, next) == [ok |-> TRUE, value |-> value, next |-> next]

SkipWhitespace(text, i) == FirstNotIn(text, i, JsonWhitespace)

\* The recursive-descent parser: a value that starts at or after position i,
\* the elements of an array after its '[' or a ',', the members of an object
\* after its '{' or a ','.
RECURSIVE ParseValue(_, _), ParseElements(_, _, _), ParseMembers(_, _, _)
ParseValue(text, i0) ==
    LET i == SkipWhitespace(text, i0)
        j == SkipWhitespace(text, i + 1)
    IN  IF i > Len(text) THEN ParseFailure
        ELSE IF text[i] = "["
        THEN IF j <= Len(text) /\ text[j] = "]"
             THEN Parsed(Arr(<<>>), j + 1)
             ELSE ParseElements(text, i + 1, <<>>)
        ELSE IF text[i] = "{"
        THEN IF j <= Len(text) /\ text[j] = "}"
             THEN Parsed(Obj(<<>>), j + 1)
             ELSE ParseMembers(text, i + 1, <<>>)
        ELSE IF IsStringLexeme(text[i]) THEN Parsed(Str(StringOf(text[i])), i + 1)
        ELSE IF text[i] = "null" THEN Parsed(Null, i + 1)
        ELSE IF text[i] = "true" THEN Parsed(Bool(TRUE), i + 1)
        ELSE IF text[i] = "false" THEN Parsed(Bool(FALSE), i + 1)
        ELSE IF text[i] = "0" THEN Parsed(Num(0), i + 1)
        ELSE IF text[i] = "1" THEN Parsed(Num(1), i + 1)
        ELSE ParseFailure

ParseElements(text, i, items) ==
    LET v == ParseValue(text, i)
        j == SkipWhitespace(text, v.next)
    IN  IF ~v.ok \/ j > Len(text) THEN ParseFailure
        ELSE IF text[j] = "," THEN ParseElements(text, j + 1, Append(items, v.value))
        ELSE IF text[j] = "]" THEN Parsed(Arr(Append(items, v.value)), j + 1)
        ELSE ParseFailure

ParseMembers(text, i, members) ==
    LET n == SkipWhitespace(text, i)
        c == SkipWhitespace(text, n + 1)
        v == ParseValue(text, c + 1)
        j == SkipWhitespace(text, v.next)
    IN  IF n > Len(text) \/ c > Len(text) THEN ParseFailure
        ELSE IF ~IsStringLexeme(text[n]) \/ text[c] # ":" THEN ParseFailure
        ELSE IF ~v.ok \/ j > Len(text) THEN ParseFailure
        ELSE IF text[j] = ","
        THEN ParseMembers(text, j + 1, SetMember(members, StringOf(text[n]), v.value))
        ELSE IF text[j] = "}"
        THEN Parsed(Obj(SetMember(members, StringOf(text[n]), v.value)), j + 1)
        ELSE ParseFailure

\* JSON.parse: ok is false where it throws a SyntaxError.
JsonParse(text) ==
    LET v == ParseValue(text, 1)
    IN  IF v.ok /\ SkipWhitespace(text, v.next) > Len(text) THEN v ELSE ParseFailure

Indent(depth) == Repeat(" ", 2 * depth)

\* JSON.stringify(value, null, 2), for a value nested at depth.
RECURSIVE Stringify(_, _), StringifyItems(_, _, _), StringifyMembers(_, _, _)
Stringify(value, depth) ==
    CASE value.k = "null" -> <<"null">>
      [] value.k = "bool" -> IF value.b THEN <<"true">> ELSE <<"false">>
      [] value.k = "num" -> IF value.n = 0 THEN <<"0">> ELSE <<"1">>
      [] value.k = "str" -> <<LexemeOf(value.s)>>
      [] value.k = "arr" ->
            IF value.items = <<>> THEN <<"[", "]">>
            ELSE <<"[">> \o StringifyItems(value.items, 1, depth + 1)
                     \o <<"\n">> \o Indent(depth) \o <<"]">>
      [] value.k = "obj" ->
            IF value.members = <<>> THEN <<"{", "}">>
            ELSE <<"{">> \o StringifyMembers(value.members, 1, depth + 1)
                     \o <<"\n">> \o Indent(depth) \o <<"}">>

StringifyItems(items, i, depth) ==
    IF i > Len(items) THEN <<>>
    ELSE (IF i > 1 THEN <<",">> ELSE <<>>) \o <<"\n">> \o Indent(depth)
             \o Stringify(items[i], depth)
             \o StringifyItems(items, i + 1, depth)

StringifyMembers(members, i, depth) ==
    IF i > Len(members) THEN <<>>
    ELSE (IF i > 1 THEN <<",">> ELSE <<>>) \o <<"\n">> \o Indent(depth)
             \o <<LexemeOf(members[i][1]), ":", " ">>
             \o Stringify(members[i][2], depth)
             \o StringifyMembers(members, i + 1, depth)

\* String.prototype.trim on a text of lexemes.
TrimText(text) ==
    LET idx == {i \in 1..Len(text) : text[i] \notin JsonWhitespace}
    IN  IF idx = {} THEN <<>> ELSE SubSeq(text, Min(idx), Max(idx))

-----------------------------------------------------------------------------
(* validateConversationJson and formatConversationJson                     *)

\* conversationFormatError holds a message; a message that numbers an element
\* of the history carries the number, the others carry 0.  The empty message
\* is the empty string of the source; the messages are named here by what
\* they say.
ErrorMessage(text, number) == [msg |-> text, index |-> number]
NoError == ErrorMessage("", 0)
\* error?.message || <the fallback text>: the SyntaxError of JSON.parse has a message.
SyntaxErrorMessage == ErrorMessage("SyntaxError", 0)
NotAnArrayMessage == ErrorMessage("must be an array", 0)
MissingFieldMessage(number) == ErrorMessage("message lacks role or content", number)
InvalidRoleMessage(number) == ErrorMessage("role must be user, assistant or system", number)
CannotFormatMessage == ErrorMessage("invalid JSON, cannot format", 0)

AllowedRoles == {"user", "assistant", "system"}

\* RoleIncluded with 'system' left out of the list.
RoleIncludedNoSystem(role) == role.k = "str" /\ role.s \in {"user", "assistant"}

\* ['user', 'assistant', 'system'].includes(role)
RoleIncluded(role) == role.k = "str" /\ role.s \in AllowedRoles

\* ValidateItems numbering the elements from 0.
RECURSIVE ValidateItemsZeroBased(_, _)
ValidateItemsZeroBased(parsed, i) ==
    IF i >= Len(parsed)
    THEN NoError
    ELSE LET item == IF Truthy(parsed[i + 1]) THEN parsed[i + 1] ELSE Obj(<<>>)
             role == GetProperty(item, "role")
             content == GetProperty(item, "content")
         IN  IF ~Truthy(role) \/ ~Truthy(content) THEN MissingFieldMessage(i)
             ELSE IF ~RoleIncluded(role) THEN InvalidRoleMessage(i)
             ELSE ValidateItemsZeroBased(parsed, i + 1)

\* ValidateItems without the check of content.
RECURSIVE ValidateItemsRoleOnly(_, _)
ValidateItemsRoleOnly(parsed, i) ==
    IF i >= Len(parsed)
    THEN NoError
    ELSE LET item == IF Truthy(parsed[i + 1]) THEN parsed[i + 1] ELSE Obj(<<>>)
             role == GetProperty(item, "role")
         IN  IF ~Truthy(role) THEN MissingFieldMessage(i + 1)
             ELSE IF ~RoleIncluded(role) THEN InvalidRoleMessage(i + 1)
             ELSE ValidateItemsRoleOnly(parsed, i + 1)

\* The loop over parsed, from the element at 0-based index i on.
RECURSIVE ValidateItems(_, _)
ValidateItems(parsed, i) ==
    IF i >= Len(parsed)
    THEN NoError
    ELSE LET item == IF Truthy(parsed[i + 1]) THEN parsed[i + 1] ELSE Obj(<<>>)
             role == GetProperty(item, "role")
             content == GetProperty(item, "content")
         IN  IF ~Truthy(role) \/ ~Truthy(content) THEN MissingFieldMessage(i + 1)
             ELSE IF ~RoleIncluded(role) THEN InvalidRoleMessage(i + 1)
             ELSE ValidateItems(parsed, i + 1)

validateConversationJson(jsonStr) ==
    LET parsed == JsonParse(jsonStr)
    IN  IF TrimText(jsonStr) = <<>> THEN NoError
        ELSE IF ~parsed.ok THEN SyntaxErrorMessage
        ELSE IF parsed.value.k # "arr" THEN NotAnArrayMessage
        ELSE ValidateItems(parsed.value.items, 0)

-----------------------------------------------------------------------------
(* The login view: state                                                   *)

DEFAULT_FEISHU_AUTH_URL == "https://accounts.feishu.cn/open-apis/authen/v1/authorize"
FEISHU_SCOPE == "contact:contact.base:readonly"
LinuxDoAuthorizeUrl == "https://connect.linux.do/oauth2/authorize"

\* window.location.href while the login view is shown.
LoginPage == <<"/login">>

\* The initial value of the authConfig ref.
InitialAuthConfig ==
    [linux_do_enabled |-> FALSE,
     linux_do_client_id |-> "",
     linux_do_redirect_uri |-> "",
     feishu_enabled |-> FALSE,
     feishu_app_id |-> "",
     feishu_redirect_uri |-> "",
     feishu_authorize_url |-> DEFAULT_FEISHU_AUTH_URL,
     local_auth_enabled |-> TRUE,
     registration_enabled |-> FALSE]

\* The step reported in lastStep.
Step(name, result) == [step |-> name, outcome |-> result]

\* The state after setup of the login view, before it is mounted.
LoginSetup(config, loggedIn) ==
    /\ serverConfig = config
    /\ isLoggedIn = loggedIn
    /\ mounted = FALSE
    /\ authConfig = InitialAuthConfig
    /\ isLoading = TRUE
    /\ isSubmitting = FALSE
    /\ errorMessage = ""
    /\ showRegister = FALSE
    /\ locationHref = LoginPage
    /\ routerPushes = <<>>
    /\ configCall = "none"
    /\ authCall = "none"
    /\ lastStep = Step("setup", "")

-----------------------------------------------------------------------------
(* The state of the dialog                                                 *)

NoEvent == [event |-> "none"]
CancelEvent == [event |-> "cancel"]

\* The initial value of the formData ref.
EmptyForm ==
    [title |-> <<>>, description |-> <<>>, tags |-> <<>>, isPublic |-> FALSE,
     promptType |-> "system", content |-> <<>>, systemPrompt |-> <<>>,
     conversationHistory |-> <<>>]

\* The state of the dialog after setup, for a parent that passes content and
\* initialTitle and has not opened the dialog yet.
DialogSetup(content, oldTitle) ==
    /\ isOpen = FALSE
    /\ promptContent = content
    /\ initialTitle = oldTitle
    /\ formData = EmptyForm
    /\ newTag = <<>>
    /\ conversationFormatError = NoError
    /\ showConversationHelp = FALSE
    /\ emitted = NoEvent
    /\ lastAlert = ""
    /\ lastAction = "setup"

\* The state after setup of the dialog, the login view not being mounted.
InitDialog(content, oldTitle) ==
    /\ DialogSetup(content, oldTitle)
    /\ LoginSetup(InitialAuthConfig, FALSE)

\* The callback of watch(() => props.isOpen) for isOpen = true, with the
\* watchers of conversationHistory and promptType that the reset triggers:
\* both find promptType 'system' and clear conversationFormatError again.
WatchIsOpen(date) ==
    /\ formData' = [EmptyForm EXCEPT
                      !.title = IF initialTitle # <<>>
                                THEN initialTitle
                                ELSE extractTitleFromContent(promptContent, date)]
    /\ showConversationHelp' = FALSE
    /\ conversationFormatError' = NoError

\* The dates new Date().toLocaleDateString() is taken to return.
Dates == {<<"1", "1", "/", "2", "/", "2", "0", "2", "6">>,
          <<"2", "0", "2", "6", "-", "1", "1", "-", "0", "2">>}

\* The parent sets isOpen to true.
OpenDialog ==
    /\ ~isOpen
    /\ isOpen' = TRUE
    /\ \E date \in Dates : WatchIsOpen(date)
    /\ lastAction' = "open"
    /\ UNCHANGED loginVars
    /\ UNCHANGED <<promptContent, initialTitle, newTag, emitted, lastAlert>>

\* The parent sets isOpen to false; the watcher's callback does nothing then.
CloseDialog ==
    /\ isOpen
    /\ isOpen' = FALSE
    /\ lastAction' = "close"
    /\ UNCHANGED loginVars
    /\ UNCHANGED <<promptContent, initialTitle, formData, newTag,
                   conversationFormatError, showConversationHelp, emitted,
                   lastAlert>>

\* The callback of watch(() => formData.value.conversationHistory): the new
\* value of conversationFormatError, for the form as it is when the callback
\* runs.
WatchConversationHistory(form, newValue) ==
    IF form.promptType # "user" THEN NoError
    ELSE validateConversationJson(newValue)

\* WatchPromptType that validates nothing when the type becomes 'user'.
WatchPromptTypeNoValidation(form, newType, error) ==
    IF newType # "user" THEN NoError ELSE error

\* The callback of watch(() => formData.value.promptType): the new value of
\* conversationFormatError, error being its value before.
WatchPromptType(form, newType, error) ==
    IF newType # "user" THEN NoError
    ELSE IF form.conversationHistory # <<>>
    THEN validateConversationJson(form.conversationHistory)
    ELSE error

\* A radio button of v-model="formData.promptType" is chosen; the watcher of
\* promptType runs on the change.
SelectPromptType(type) ==
    /\ isOpen
    /\ type # formData.promptType
    /\ formData' = [formData EXCEPT !.promptType = type]
    /\ conversationFormatError' =
          WatchPromptType(formData', type, conversationFormatError)
    /\ lastAction' = "selectPromptType"
    /\ UNCHANGED loginVars
    /\ UNCHANGED <<isOpen, promptContent, initialTitle, newTag,
                   showConversationHelp, emitted, lastAlert>>

\* The textarea of v-model="formData.conversationHistory", rendered for
\* promptType 'user' only, gets a new text; the watcher of
\* conversationHistory runs on the change.
EditHistory(text) ==
    /\ isOpen
    /\ formData.promptType = "user"
    /\ text # formData.conversationHistory
    /\ formData' = [formData EXCEPT !.conversationHistory = text]
    /\ conversationFormatError' = WatchConversationHistory(formData', text)
    /\ lastAction' = "editHistory"
    /\ UNCHANGED loginVars
    /\ UNCHANGED <<isOpen, promptContent, initialTitle, newTag,
                   showConversationHelp, emitted, lastAlert>>

\* formatConversationJson with a catch block that reports nothing.
formatConversationJsonSilent ==
    LET history == formData.conversationHistory
        parsed == JsonParse(history)
        formatted == Stringify(parsed.value, 0)
    IN  IF TrimText(history) # <<>> /\ parsed.ok
        THEN /\ formData' = [formData EXCEPT !.conversationHistory = formatted]
             /\ conversationFormatError' =
                   IF formatted # history
                   THEN WatchConversationHistory(formData', formatted)
                   ELSE NoError
        ELSE UNCHANGED <<formData, conversationFormatError>>

\* formatConversationJson, with the watcher of conversationHistory that runs
\* when the formatted text differs from the text before.
formatConversationJson ==
    LET history == formData.conversationHistory
        parsed == JsonParse(history)
        formatted == Stringify(parsed.value, 0)
    IN  IF TrimText(history) = <<>>
        THEN UNCHANGED <<formData, conversationFormatError>>
        ELSE IF parsed.ok
        THEN /\ formData' = [formData EXCEPT !.conversationHistory = formatted]
             /\ conversationFormatError' =
                   IF formatted # history
                   THEN WatchConversationHistory(formData', formatted)
                   ELSE NoError
        ELSE /\ conversationFormatError' = CannotFormatMessage
             /\ UNCHANGED formData

\* formatConversationJson is called on the history as it stands.
CallFormat ==
    /\ isOpen
    /\ formatConversationJson
    /\ lastAction' = "format"
    /\ UNCHANGED loginVars
    /\ UNCHANGED <<isOpen, promptContent, initialTitle, newTag,
                   showConversationHelp, emitted, lastAlert>>

\* The format button is clicked.  The template renders it for promptType
\* 'user', under the v-else of the error line, and v-if the history is not
\* the empty string.
ClickFormat ==
    /\ formData.promptType = "user"
    /\ conversationFormatError = NoError
    /\ formData.conversationHistory # <<>>
    /\ CallFormat

\* The input of v-model="formData.title" gets a new text.
EditTitle(text) ==
    /\ isOpen
    /\ text # formData.title
    /\ formData' = [formData EXCEPT !.title = text]
    /\ lastAction' = "editTitle"
    /\ UNCHANGED loginVars
    /\ UNCHANGED <<isOpen, promptContent, initialTitle, newTag,
                   conversationFormatError, showConversationHelp, emitted,
                   lastAlert>>

\* The textarea of v-model="formData.content", rendered under the v-else of
\* the preview of a non-blank promptContent, gets a new text.
EditContent(text) ==
    /\ isOpen
    /\ Trim(promptContent) = <<>>
    /\ text # formData.content
    /\ formData' = [formData EXCEPT !.content = text]
    /\ lastAction' = "editContent"
    /\ UNCHANGED loginVars
    /\ UNCHANGED <<isOpen, promptContent, initialTitle, newTag,
                   conversationFormatError, showConversationHelp, emitted,
                   lastAlert>>

\* emit('save', {...}) of handleSave.
SaveEvent(form) ==
    [event |-> "save",
     title |-> Trim(form.title),
     description |-> Trim(form.description),
     tags |-> form.tags,
     isPublic |-> form.isPublic,
     promptType |-> form.promptType,
     content |-> Trim(form.content),
     systemPrompt |-> IF form.promptType = "user" THEN Trim(form.systemPrompt) ELSE <<>>,
     conversationHistory |->
         IF form.promptType = "user" THEN TrimText(form.conversationHistory) ELSE <<>>]

\* handleSave.  lastAction tells whether it emitted.
handleSave ==
    /\ isOpen
    /\ IF Trim(formData.title) = <<>>
       THEN /\ lastAction' = "handleSave:return"
            /\ UNCHANGED <<emitted, lastAlert>>
       ELSE IF promptContent = <<>> /\ Trim(formData.content) = <<>>
       THEN /\ lastAlert' = "enter the prompt content"
            /\ lastAction' = "handleSave:return"
            /\ UNCHANGED emitted
       ELSE IF formData.promptType = "user" /\ conversationFormatError.msg # ""
       THEN /\ lastAlert' = "fix the conversation JSON"
            /\ lastAction' = "handleSave:return"
            /\ UNCHANGED emitted
       ELSE /\ emitted' = SaveEvent(formData)
            /\ lastAction' = "handleSave:emit"
            /\ UNCHANGED lastAlert
    /\ UNCHANGED <<isOpen, promptContent, initialTitle, formData, newTag,
                   conversationFormatError, showConversationHelp>>
    /\ UNCHANGED loginVars

\* handleCancel
handleCancel ==
    /\ isOpen
    /\ emitted' = CancelEvent
    /\ lastAction' = "handleCancel"
    /\ UNCHANGED loginVars
    /\ UNCHANGED <<isOpen, promptContent, initialTitle, formData, newTag,
                   conversationFormatError, showConversationHelp, lastAlert>>

\* The most tags formData.tags takes.
MaxTags == 10

\* The input of v-model="newTag" gets a new text.
EditNewTag(text) ==
    /\ isOpen
    /\ text # newTag
    /\ newTag' = text
    /\ lastAction' = "editNewTag"
    /\ UNCHANGED loginVars
    /\ UNCHANGED <<isOpen, promptContent, initialTitle, formData,
                   conversationFormatError, showConversationHelp, emitted,
                   lastAlert>>

\* The tags after addTag when it does not look at how many there are.
TagsAddedNoLimit(tags, tag) ==
    IF tag # <<>> /\ ~(\E i \in 1..Len(tags) : tags[i] = tag)
    THEN Append(tags, tag)
    ELSE tags

\* The tags after addTag, tag being the trimmed text of newTag.
TagsAdded(tags, tag) ==
    IF /\ tag # <<>>
       /\ ~(\E i \in 1..Len(tags) : tags[i] = tag)
       /\ Len(tags) < MaxTags
    THEN Append(tags, tag)
    ELSE tags

\* addTag, on Enter in the input of newTag or a click on the button.
addTag ==
    LET tag == Trim(newTag)
        tags == TagsAdded(formData.tags, tag)
    IN  /\ isOpen
        /\ formData' = [formData EXCEPT !.tags = tags]
        /\ newTag' = IF tags # formData.tags THEN <<>> ELSE newTag
        /\ lastAction' = "addTag"
        /\ UNCHANGED loginVars
        /\ UNCHANGED <<isOpen, promptContent, initialTitle,
                       conversationFormatError, showConversationHelp, emitted,
                       lastAlert>>

\* removeTag(tag), on a click on the button of a tag shown.
removeTag(tag) ==
    /\ isOpen
    /\ \E i \in 1..Len(formData.tags) : formData.tags[i] = tag
    /\ formData' = [formData EXCEPT
                      !.tags = SelectSeq(formData.tags, LAMBDA t : t # tag)]
    /\ lastAction' = "removeTag"
    /\ UNCHANGED loginVars
    /\ UNCHANGED <<isOpen, promptContent, initialTitle, newTag,
                   conversationFormatError, showConversationHelp, emitted,
                   lastAlert>>

-----------------------------------------------------------------------------
(* Prompt texts the title is extracted from                                *)

\* The most fragments a prompt text is put together from.
MaxFrags == 3
\* The most characters of a prompt text written character by character.
MaxChars == 3
\* How far past TitleMaxLength the long runs of the long prompt texts go.
MaxOverflow == 2

RECURSIVE Concat(_)
Concat(ss) == IF ss = <<>> THEN <<>> ELSE Head(ss) \o Concat(Tail(ss))

\* The texts put together from at most n of the fragments.
TextsOf(frags, n) ==
    {Concat(t) : t \in UNION {[1..k -> frags] : k \in 0..n}}

TitleElementFoo ==
    <<"<", "t", "i", "t", "l", "e", ">", "R", "o", "l", "e", ":", " ",
      "F", "o", "o", "<", "/", "t", "i", "t", "l", "e", ">">>

TitleFrags ==
    {TitleElementFoo,
     <<"<", "t", "i", "t", "l", "e", ">">>,
     <<"<", "/", "T", "i", "t", "l", "e", ">">>,
     <<"<", "t", "i", "t", "l", "e", "b", "a", "r", ">">>,
     <<"<", "a", ">">>,
     <<"B", "a", "r">>,
     <<"\n">>,
     <<" ">>}

MarkupFrags ==
    {<<"<", "a", ">">>,
     <<"<", "/", "a", ">">>,
     <<"<", "b", ">", "x", "<", "/", "b", ">">>,
     <<"<", "r", "o", "l", "e", ">">>,
     <<"<", "s", "e", "c", "t", "i", "o", "n", ">">>,
     <<"<", "p", " ", "i", "d", "=", "\"", "R", "o", "l", "e", "\"", ">">>,
     <<"r", "o", "l", "e", ":">>,
     <<"x">>,
     <<"y", " ", ">", "z">>,
     <<"\n">>,
     <<" ">>}

MarkdownFrags ==
    {RolePrefix,
     <<"#">>,
     <<"-", " ">>,
     <<"*">>,
     <<"1", ".">>,
     <<"A">>,
     <<"b", "c">>,
     <<"\n">>,
     <<" ">>}

RoleAttrFrags ==
    {<<"<", "p", " ", "i", "d", "=", "\"", "r", "o", "l", "e", "\"", ">">>,
     <<"<", "p", " ", "t", "i", "t", "l", "e", "=", "'", "R", "o", "l", "e", "'", ">">>,
     <<"<", "p", " ", "k", " ", "t", "i", "t", "l", "e", "=", "\"", "r", "o", "l", "e", "\"", ">">>,
     <<"<", "a", ">">>,
     <<"<", "r", "o", "l", "e", ">">>,
     <<"r", "o", "l", "e", ":", " ">>,
     <<"x">>,
     <<"y">>}

CharAlphabet == {"<", ">", "#", " ", "\n", "a", ":"}

LongHeads ==
    {<<>>,
     <<"#", " ">>,
     RolePrefix \o <<" ">>,
     <<"b", " ">>,
     <<"<", "a", ">">>,
     <<"<", "t", "i", "t", "l", "e", ">">>}

LongTails ==
    {<<>>,
     <<" ", "c">>,
     <<"\n", "d">>,
     <<"<", "/", "a", ">">>,
     <<"<", "/", "t", "i", "t", "l", "e", ">">>}

LongTexts ==
    {h \o Repeat("a", n) \o t :
        h \in LongHeads,
        n \in (TitleMaxLength - 3)..(TitleMaxLength + MaxOverflow),
        t \in LongTails}

TitleInputs ==
    TextsOf(TitleFrags, MaxFrags) \cup TextsOf(MarkupFrags, MaxFrags)
        \cup TextsOf(MarkdownFrags, MaxFrags)
        \cup TextsOf(RoleAttrFrags, MaxFrags)
        \cup UNION {[1..k -> CharAlphabet] : k \in 0..MaxChars}
        \cup LongTexts

-----------------------------------------------------------------------------
(* The dialog opened on a prompt text, to extract its title                *)

InitTitle == \E content \in TitleInputs : InitDialog(content, <<>>)

NextTitle == OpenDialog \/ CloseDialog

SpecTitle == InitTitle /\ [][NextTitle]_vars

-----------------------------------------------------------------------------
(* Conversation-history texts                                              *)

\* The most elements of a history put together from the elements below.
MaxTurns == 2

\* A value written without whitespace.
RECURSIVE Compact(_), CompactItems(_, _), CompactMembers(_, _)
Compact(value) ==
    CASE value.k = "arr" -> <<"[">> \o CompactItems(value.items, 1) \o <<"]">>
      [] value.k = "obj" -> <<"{">> \o CompactMembers(value.members, 1) \o <<"}">>
      [] OTHER -> Stringify(value, 0)
CompactItems(items, i) ==
    IF i > Len(items) THEN <<>>
    ELSE (IF i > 1 THEN <<",">> ELSE <<>>) \o Compact(items[i])
             \o CompactItems(items, i + 1)
CompactMembers(members, i) ==
    IF i > Len(members) THEN <<>>
    ELSE (IF i > 1 THEN <<",">> ELSE <<>>)
             \o <<LexemeOf(members[i][1]), ":">> \o Compact(members[i][2])
             \o CompactMembers(members, i + 1)

\* An object with the role and the content given; Undefined leaves the
\* member out.
Turn(role, content) ==
    Obj((IF role = Undefined THEN <<>> ELSE << <<"role", role>> >>)
        \o (IF content = Undefined THEN <<>> ELSE << <<"content", content>> >>))

WellFormedTurns ==
    {Turn(Str(r), Str("hi")) : r \in AllowedRoles}
        \cup {Obj(<< <<"content", Str("hi")>>, <<"role", Str("user")>> >>)}

HistoryElements ==
    WellFormedTurns
        \cup {Turn(Undefined, Str("hi")),
              Turn(Undefined, Undefined),
              Turn(Str("user"), Undefined),
              Turn(Str("user"), Str("")),
              Turn(Str(""), Str("hi")),
              Turn(Str("bogus"), Str("hi")),
              Turn(Str("bogus"), Undefined),
              Turn(Str("bogus"), Str("")),
              Turn(Null, Str("hi")),
              Turn(Arr(<<Str("user")>>), Str("hi")),
              Turn(Str("user"), Null),
              Turn(Str("user"), Num(0)),
              Turn(Str("user"), Num(1)),
              Turn(Str("system"), Bool(FALSE)),
              Turn(Str("assistant"), Arr(<<>>)),
              Null, Str("hi"), Arr(<<>>)}

ArraysOf(elements, n) ==
    {Arr(items) : items \in UNION {[1..k -> elements] : k \in 0..n}}

NonArrays ==
    {Null, Bool(TRUE), Bool(FALSE), Num(0), Num(1), Str("hi"), Str(""),
     Obj(<<>>), Obj(<< <<"not", Str("hi")>> >>), Turn(Str("user"), Str("hi"))}

BlankTexts == {<<>>, <<" ">>, <<"\n", " ">>}

DeleteAt(text, i) == SubSeq(text, 1, i - 1) \o SubSeq(text, i + 1, Len(text))
InsertAt(text, i, t) == SubSeq(text, 1, i - 1) \o <<t>> \o SubSeq(text, i, Len(text))

\* Texts with a lexeme missing, a stray lexeme, a trailing comma or a member
\* written twice, and texts with whitespace around them.
VariedTexts ==
    LET base == {Compact(v) : v \in ArraysOf(HistoryElements, 1) \cup NonArrays}
    IN  UNION {{DeleteAt(t, i) : i \in 1..Len(t)} : t \in base}
            \cup UNION {{InsertAt(t, i, "x") : i \in 1..(Len(t) + 1)} : t \in base}
            \cup {InsertAt(t, Len(t), ",") : t \in base}
            \cup {<<" ">> \o t \o <<"\n">> : t \in base}
            \cup {<<"[", "{", "\"role\"", ":", "\"bogus\"", ",", "\"role\"", ":",
                    "\"user\"", ",", "\"content\"", ":", "\"hi\"", "}", "]">>}

HistoryTexts ==
    BlankTexts
        \cup {Compact(v) : v \in ArraysOf(HistoryElements, MaxTurns) \cup NonArrays}
        \cup {Stringify(v, 0) : v \in ArraysOf(HistoryElements, MaxTurns) \cup NonArrays}
        \cup VariedTexts

\* The prompt the histories are entered for.
DevPrompt == <<"#", " ", "D", "e", "v">>

-----------------------------------------------------------------------------
(* The dialog with histories entered and formatConversationJson called on  *)
(* them where the template renders the button's paragraph, whether or not  *)
(* the error line has replaced it                                          *)

InitHistory == InitDialog(DevPrompt, <<>>)

\* A history is entered into the empty textarea, and the textarea is emptied
\* again.
NextHistory ==
    \/ OpenDialog
    \/ \E type \in {"system", "user"} : SelectPromptType(type)
    \/ /\ formData.conversationHistory = <<>>
       /\ \E text \in HistoryTexts : EditHistory(text)
    \/ EditHistory(<<>>)
    \/ /\ formData.promptType = "user"
       /\ formData.conversationHistory # <<>>
       /\ CallFormat

SpecHistory == InitHistory /\ [][NextHistory]_vars

-----------------------------------------------------------------------------
(* The dialog as its user drives it                                        *)

UserTurn == Turn(Str("user"), Str("hi"))
AssistantTurn == Turn(Str("assistant"), Str("hi"))

DialogHistories ==
    {<<>>, <<" ">>,
     Compact(Arr(<<UserTurn>>)),
     Stringify(Arr(<<UserTurn, AssistantTurn>>), 0),
     Compact(Arr(<<UserTurn, Turn(Str("bogus"), Str("hi"))>>)),
     Compact(Arr(<<Turn(Undefined, Str("hi"))>>)),
     Compact(Obj(<< <<"not", Str("hi")>> >>)),
     DeleteAt(Compact(Arr(<<UserTurn>>)), 1)}

OldTitle == <<"O", "l", "d">>
DialogTitles == {<<>>, OldTitle}

Init == \E oldTitle \in {<<>>, OldTitle} : InitDialog(DevPrompt, oldTitle)

Next ==
    \/ OpenDialog
    \/ CloseDialog
    \/ \E type \in {"system", "user"} : SelectPromptType(type)
    \/ \E text \in DialogHistories : EditHistory(text)
    \/ ClickFormat
    \/ \E text \in DialogTitles : EditTitle(text)
    \/ handleSave
    \/ handleCancel

Spec == Init /\ [][Next]_vars

-----------------------------------------------------------------------------
(* The dialog with tags added and removed                                  *)

\* How many tag names there are to type: more than formData.tags takes.
MaxTagNames == 11

TagLetters == <<"a", "b", "c", "d", "e", "f", "g", "h", "i", "j", "k", "l", "m">>
TagName(k) == <<TagLetters[k]>>

\* The names formData.tags holds.
TagsHeld == {formData.tags[i] : i \in 1..Len(formData.tags)}

\* The texts typed into the input of newTag: the first name not yet among
\* the tags (the names being interchangeable), the tag added first and the
\* tag added last, each as it is and with whitespace around it, and texts
\* of whitespace only.
TagTexts ==
    LET unused == {k \in 1..MaxTagNames : TagName(k) \notin TagsHeld}
        names == (IF unused = {} THEN {} ELSE {TagName(Min(unused))})
                    \cup (IF formData.tags = <<>> THEN {}
                          ELSE {formData.tags[1], formData.tags[Len(formData.tags)]})
    IN  names \cup {<<" ">> \o n \o <<"\t", " ">> : n \in names} \cup {<<>>, <<" ", " ">>}

InitTags == InitDialog(DevPrompt, <<>>)

\* The tags are the first names in their order: none was removed since the
\* dialog was opened, except from the end.
TagsInOrder == \A i \in 1..Len(formData.tags) : formData.tags[i] = TagName(i)

\* Tags are typed and added; while the tags are in order any one of them is
\* removed; the dialog is closed and opened again.
NextTags ==
    \/ OpenDialog
    \/ CloseDialog
    \/ \E text \in TagTexts : EditNewTag(text)
    \/ addTag
    \/ /\ TagsInOrder
       /\ \E tag \in TagsHeld : removeTag(tag)

SpecTags == InitTags /\ [][NextTags]_vars

-----------------------------------------------------------------------------
(* The dialog opened with and without a prompt text, the text entered in   *)
(* the content editor where the template renders it                        *)

\* The values of props.promptContent: none, whitespace only, a prompt.
PromptContents == {<<>>, <<" ">>, <<"\n", " ">>, DevPrompt}

\* The texts entered in the content editor.
ContentTexts == {<<>>, <<" ">>, <<"x">>, <<" ", "x", "\n">>}

InitContent == \E content \in PromptContents : InitDialog(content, <<>>)

NextContent ==
    \/ OpenDialog
    \/ CloseDialog
    \/ \E text \in ContentTexts : EditContent(text)
    \/ \E text \in DialogTitles : EditTitle(text)
    \/ handleSave
    \/ handleCancel

SpecContent == InitContent /\ [][NextContent]_vars

-----------------------------------------------------------------------------
(* The login view: handlers.  A handler that awaits a call of the auth     *)
(* store is two steps: up to the call, and from the call's outcome to its  *)
(* end, which runs without a user event in between.  The handlers are      *)
(* called whether or not the template renders their button.                *)

\* The user has left the login view: the router or the browser navigates.
Navigated == routerPushes # <<>> \/ locationHref # LoginPage

\* The login view is shown and takes the user's events.
Shown == mounted /\ ~Navigated

\* onMounted
onMounted ==
    /\ ~mounted
    /\ mounted' = TRUE
    /\ IF isLoggedIn
       THEN /\ routerPushes' = Append(routerPushes, "/")
            /\ UNCHANGED configCall
       ELSE /\ configCall' = "pending"
            /\ UNCHANGED routerPushes
    /\ lastStep' = Step("onMounted", "")
    /\ UNCHANGED <<serverConfig, isLoggedIn, authConfig, isLoading,
                   isSubmitting, errorMessage, showRegister, locationHref,
                   authCall>>
    /\ UNCHANGED dialogVars

\* { ...authConfig.value, ...config, feishu_authorize_url: ... }
MergedAuthConfig(old, config) ==
    [f \in DOMAIN old |->
        IF f = "feishu_authorize_url"
        THEN IF f \in DOMAIN config /\ config[f] # ""
             THEN config[f]
             ELSE DEFAULT_FEISHU_AUTH_URL
        ELSE IF f \in DOMAIN config THEN config[f] ELSE old[f]]

\* What authStore.getAuthConfig() does: resolve with the configuration,
\* resolve with null, or throw.
ConfigOutcomes == {"resolved", "null", "rejected"}

\* fetchAuthConfig from the outcome of getAuthConfig to its end.
fetchAuthConfig(outcome) ==
    /\ configCall = "pending"
    /\ configCall' = outcome
    /\ IF outcome = "resolved"
       THEN /\ authConfig' = MergedAuthConfig(authConfig, serverConfig)
            /\ showRegister' = IF ~serverConfig.registration_enabled
                               THEN FALSE
                               ELSE showRegister
       ELSE UNCHANGED <<authConfig, showRegister>>
    /\ isLoading' = FALSE
    /\ lastStep' = Step("fetchAuthConfig", outcome)
    /\ UNCHANGED <<serverConfig, isLoggedIn, mounted, isSubmitting,
                   errorMessage, locationHref, routerPushes, authCall>>
    /\ UNCHANGED dialogVars

\* The inline handlers showRegister = true and showRegister = false, where
\* the template renders the link and the register form.
SetShowRegister(value) ==
    /\ Shown
    /\ ~isLoading
    /\ authConfig.registration_enabled
    /\ IF value THEN authConfig.local_auth_enabled ELSE showRegister
    /\ showRegister # value
    /\ showRegister' = value
    /\ lastStep' = Step("showRegister", "")
    /\ UNCHANGED <<serverConfig, isLoggedIn, mounted, authConfig, isLoading,
                   isSubmitting, errorMessage, locationHref, routerPushes,
                   configCall, authCall>>
    /\ UNCHANGED dialogVars

\* loginWithLinuxDo
loginWithLinuxDo ==
    /\ Shown
    /\ IF ~authConfig.linux_do_enabled
       THEN /\ errorMessage' = "Linux.do OAuth is not configured"
            /\ UNCHANGED locationHref
       ELSE /\ locationHref' =
                  <<LinuxDoAuthorizeUrl, "?",
                    "client_id", authConfig.linux_do_client_id,
                    "redirect_uri", authConfig.linux_do_redirect_uri,
                    "response_type", "code",
                    "scope", "user",
                    "state", "linux_do">>
            /\ UNCHANGED errorMessage
    /\ lastStep' = Step("loginWithLinuxDo", "")
    /\ UNCHANGED <<serverConfig, isLoggedIn, mounted, authConfig, isLoading,
                   isSubmitting, showRegister, routerPushes, configCall,
                   authCall>>
    /\ UNCHANGED dialogVars

\* FeishuConfigComplete that looks at the app id only.
FeishuConfigCompleteAppOnly(config) ==
    config.feishu_app_id # ""

\* Neither test of !authConfig.value.feishu_app_id ||
\* !authConfig.value.feishu_redirect_uri holds.
FeishuConfigComplete(config) ==
    config.feishu_app_id # "" /\ config.feishu_redirect_uri # ""

\* `${authorizeUrl}?${params.toString()}`, the parameters by name and value.
FeishuUrl(config) ==
    LET authorizeUrl == IF config.feishu_authorize_url # ""
                        THEN config.feishu_authorize_url
                        ELSE DEFAULT_FEISHU_AUTH_URL
    IN  <<authorizeUrl, "?",
          "app_id", config.feishu_app_id,
          "redirect_uri", config.feishu_redirect_uri,
          "response_type", "code",
          "scope", FEISHU_SCOPE,
          "state", "feishu">>

\* loginWithFeishu
loginWithFeishu ==
    /\ Shown
    /\ IF ~authConfig.feishu_enabled
       THEN /\ errorMessage' = "Feishu OAuth is not configured"
            /\ UNCHANGED locationHref
       ELSE IF ~FeishuConfigComplete(authConfig)
       THEN /\ errorMessage' = "Feishu OAuth configuration is incomplete"
            /\ UNCHANGED locationHref
       ELSE /\ locationHref' = FeishuUrl(authConfig)
            /\ UNCHANGED errorMessage
    /\ lastStep' = Step("loginWithFeishu", "")
    /\ UNCHANGED <<serverConfig, isLoggedIn, mounted, authConfig, isLoading,
                   isSubmitting, showRegister, routerPushes, configCall,
                   authCall>>
    /\ UNCHANGED dialogVars

\* handleLocalLogin up to the call of authStore.loginWithPassword.  The
\* submit button and the inputs of the form are disabled while isSubmitting.
handleLocalLogin ==
    /\ Shown
    /\ ~isSubmitting
    /\ errorMessage' = ""
    /\ isSubmitting' = TRUE
    /\ authCall' = "loginWithPassword"
    /\ lastStep' = Step("handleLocalLogin", "called")
    /\ UNCHANGED <<serverConfig, isLoggedIn, mounted, authConfig, isLoading,
                   showRegister, locationHref, routerPushes, configCall>>
    /\ UNCHANGED dialogVars

\* What authStore.loginWithPassword() does: resolve with true, resolve with
\* false, or throw.
LoginOutcomes == {"success", "failure", "thrown"}

\* isSubmitting at the end of handleLocalLogin if it were reset at the end
\* of the try block.
SubmittingAfterLoginNoFinally(outcome) == outcome = "thrown"

\* isSubmitting at the end of handleLocalLogin: the finally block.
SubmittingAfterLogin(outcome) == FALSE

\* handleLocalLogin from the outcome of loginWithPassword to its end.  When
\* handleRegister awaits it, the finally block of handleRegister follows.
LoginWithPasswordDone(outcome) ==
    /\ authCall \in {"loginWithPassword", "loginWithPassword:register"}
    /\ authCall' = "none"
    /\ IF outcome = "success"
       THEN /\ routerPushes' = Append(routerPushes, "/")
            /\ UNCHANGED errorMessage
       ELSE /\ errorMessage' = IF outcome = "failure"
                               THEN "wrong username or password"
                               ELSE "login failed, try again later"
            /\ UNCHANGED routerPushes
    /\ isSubmitting' = IF authCall = "loginWithPassword:register"
                       THEN FALSE
                       ELSE SubmittingAfterLogin(outcome)
    /\ lastStep' = Step(IF authCall = "loginWithPassword:register"
                        THEN "handleRegister:login"
                        ELSE "handleLocalLogin", outcome)
    /\ UNCHANGED <<serverConfig, isLoggedIn, mounted, authConfig, isLoading,
                   showRegister, locationHref, configCall>>
    /\ UNCHANGED dialogVars

\* handleRegister up to the call of authStore.register, or to its return
\* when registration is not enabled.
handleRegister ==
    /\ Shown
    /\ ~isSubmitting
    /\ IF ~authConfig.registration_enabled
       THEN /\ errorMessage' = "registration is closed, contact the administrator"
            /\ showRegister' = FALSE
            /\ lastStep' = Step("handleRegister", "refused")
            /\ UNCHANGED <<isSubmitting, authCall>>
       ELSE /\ errorMessage' = ""
            /\ isSubmitting' = TRUE
            /\ authCall' = "register"
            /\ lastStep' = Step("handleRegister", "called")
            /\ UNCHANGED showRegister
    /\ UNCHANGED <<serverConfig, isLoggedIn, mounted, authConfig, isLoading,
                   locationHref, routerPushes, configCall>>
    /\ UNCHANGED dialogVars

\* What authStore.register() does: resolve with success, resolve with a
\* failure that has an error text or none, or throw.
RegisterOutcomes ==
    {[kind |-> "success", error |-> ""],
     [kind |-> "failure", error |-> "the username is taken"],
     [kind |-> "failure", error |-> ""],
     [kind |-> "thrown", error |-> ""]}

\* The message of a failed registration without the fallback text.
RegisterFailureMessageNoFallback(error) == error

\* result.error || <the fallback text>
RegisterFailureMessage(error) ==
    IF error # "" THEN error ELSE "registration failed, check the input"

\* handleRegister from the outcome of register to its end, or, after a
\* success, to the call of loginWithPassword in the handleLocalLogin it
\* awaits.
RegisterDone(outcome) ==
    /\ authCall = "register"
    /\ IF outcome.kind = "success"
       THEN /\ showRegister' = FALSE
            /\ errorMessage' = ""
            /\ isSubmitting' = TRUE
            /\ authCall' = "loginWithPassword:register"
       ELSE /\ errorMessage' = IF outcome.kind = "failure"
                               THEN RegisterFailureMessage(outcome.error)
                               ELSE "registration failed, check the input"
            /\ isSubmitting' = FALSE
            /\ authCall' = "none"
            /\ UNCHANGED showRegister
    /\ lastStep' = Step("handleRegister", outcome.kind)
    /\ UNCHANGED <<serverConfig, isLoggedIn, mounted, authConfig, isLoading,
                   locationHref, routerPushes, configCall>>
    /\ UNCHANGED dialogVars

-----------------------------------------------------------------------------
(* The login view, for the configurations the server may have              *)

\* The configurations authStore.getAuthConfig() resolves with.
ServerConfigs ==
    {[linux_do_enabled |-> linuxDo,
      linux_do_client_id |-> IF linuxDo THEN "client" ELSE "",
      linux_do_redirect_uri |-> IF linuxDo THEN "https://yprompt/callback" ELSE "",
      feishu_enabled |-> feishu,
      feishu_app_id |-> appId,
      feishu_redirect_uri |-> redirectUri,
      feishu_authorize_url |-> authorizeUrl,
      local_auth_enabled |-> TRUE,
      registration_enabled |-> registration] :
        linuxDo \in BOOLEAN, feishu \in BOOLEAN,
        appId \in {"", "cli_a1"},
        redirectUri \in {"", "https://yprompt/feishu"},
        authorizeUrl \in {"", "https://feishu.example/authorize"},
        registration \in BOOLEAN}

InitLogin ==
    /\ DialogSetup(DevPrompt, <<>>)
    /\ \E config \in ServerConfigs, loggedIn \in BOOLEAN :
          LoginSetup(config, loggedIn)

NextLogin ==
    \/ onMounted
    \/ \E outcome \in ConfigOutcomes : fetchAuthConfig(outcome)
    \/ \E value \in BOOLEAN : SetShowRegister(value)
    \/ loginWithLinuxDo
    \/ loginWithFeishu
    \/ handleLocalLogin
    \/ \E outcome \in LoginOutcomes : LoginWithPasswordDone(outcome)
    \/ handleRegister
    \/ \E outcome \in RegisterOutcomes : RegisterDone(outcome)

SpecLogin == InitLogin /\ [][NextLogin]_vars

-----------------------------------------------------------------------------
(* Properties of extractTitleFromContent, on the title the dialog shows    *)
(* right after it was opened without an initial title                      *)

TitleShown == lastAction = "open" /\ initialTitle = <<>>

IsBlank(s) == Trim(s) = <<>>
IsMarkup(content) == StartsWithAt(Trim(content), 1, <<"<">>)
Contains(s, sub) == \E p \in 1..Len(s) : StartsWithAt(s, p, sub)

\* What the length limit is specified to make of a candidate title.
Limited(candidate) ==
    IF Len(candidate) > 50
    THEN [i \in 1..53 |-> IF i <= 50 THEN candidate[i] ELSE "."]
    ELSE candidate

\* C1: extractTitleFromContent returns a non-empty string for every input:
\* empty, whitespace-only, markup, plain text, or text whose every line
\* reduces to nothing once its markers are stripped.
C1_TitleNeverEmpty ==
    TitleShown => formData.title # <<>>

\* A title was extracted from a non-blank plain text whose every line reduces
\* to nothing, and is the default title.
C1_Witness ==
    /\ TitleShown
    /\ ~IsBlank(promptContent)
    /\ ~IsMarkup(promptContent)
    /\ \E date \in Dates : formData.title = DefaultTitle(date)

\* C2: a candidate title longer than 50 characters is returned as its first
\* 50 characters followed by '...', a candidate of 50 characters or fewer is
\* returned unchanged; so no title is longer than 53 characters.
C2_TruncatedAtFifty ==
    TitleShown =>
        /\ \E date \in Dates :
              formData.title = Limited(TitleCandidate(promptContent, date))
        /\ Len(formData.title) <= 53
        /\ \A n \in 1..Len(promptContent) :
              promptContent = Repeat("a", n) =>
                  formData.title =
                      IF n > 50 THEN Repeat("a", 50) \o <<".", ".", ".">>
                      ELSE promptContent

\* A candidate of more than 50 characters was cut and marked.
C2_Witness ==
    /\ TitleShown
    /\ \A date \in Dates : Len(TitleCandidate(promptContent, date)) > 50
    /\ Len(formData.title) = 53
    /\ SubSeq(formData.title, 51, 53) = <<".", ".", ".">>

Foo == <<"F", "o", "o">>

\* C3 as stated: markup that contains <title>Role: Foo</title> anywhere gets
\* the title "Foo", whatever precedes or follows the element.
C3_FooAnywhere ==
    (/\ TitleShown
     /\ IsMarkup(promptContent)
     /\ Contains(promptContent, TitleElementFoo))
        => formData.title = Foo

\* The least position where "<title" occurs in s in any letter case, 0 when
\* it occurs nowhere.
FirstTitleOpening(s) ==
    LET at == {p \in 1..Len(s) :
                  StartsWithAtCI(s, p, <<"<", "t", "i", "t", "l", "e">>)}
    IN  IF at = {} THEN 0 ELSE Min(at)

\* C3 as amended: markup in which the first occurrence of "<title" (in any
\* letter case) is the start of <title>Role: Foo</title> gets the title
\* "Foo", whatever else precedes or follows the element.
C3_FooFirstTitle ==
    (/\ TitleShown
     /\ IsMarkup(promptContent)
     /\ StartsWithAt(promptContent, FirstTitleOpening(promptContent),
                     TitleElementFoo))
        => formData.title = Foo

\* The element is preceded by another element and followed by text, and the
\* title is "Foo".
C3_Witness ==
    /\ TitleShown
    /\ \E p \in 2..Len(promptContent) :
          /\ StartsWithAt(promptContent, p, TitleElementFoo)
          /\ p + Len(TitleElementFoo) <= Len(promptContent)
    /\ StartsWithAt(promptContent, 1, <<"<", "a", ">">>)
    /\ formData.title = Foo

\* The first non-blank line of a text, trimmed.
FirstNonBlankLine(content) == Trim(Head(SplitLines(Trim(content))))

\* C4: plain text whose first non-blank line starts with '# Role:' and has
\* non-blank text after that prefix gets everything after '# Role:' on that
\* line, trimmed, as its title (before the limit of 50 characters), whether
\* or not a space follows the colon.
C4_RoleHeading ==
    LET line == FirstNonBlankLine(promptContent)
        rest == Trim(SubSeq(line, Len(RolePrefix) + 1, Len(line)))
    IN  (/\ TitleShown
         /\ ~IsBlank(promptContent)
         /\ ~IsMarkup(promptContent)
         /\ StartsWithAt(line, 1, RolePrefix)
         /\ rest # <<>>)
            => formData.title = Limited(rest)

\* The text between the tags of s in document order, from position from on:
\* the matches of />([^<]+)</g, each without its angle brackets and trimmed.
RECURSIVE InterTagTexts(_, _)
InterTagTexts(s, from) ==
    LET starts == {p \in from..Len(s) : InterTagAt(s, p).found}
        m == InterTagAt(s, Min(starts))
    IN  IF starts = {}
        THEN <<>>
        ELSE <<Trim(SelectSeq(m.all, LAMBDA c : c \notin {">", "<"}))>>
                 \o InterTagTexts(s, Min(starts) + Len(m.all))

\* C10: on the markup path, when neither the <title> step nor a role pattern
\* yields a title, the title is the first inter-tag text that is non-empty
\* after trimming, in document order; whitespace-only texts before it are
\* skipped, and the default title is used only if no text is non-blank.
C10_FirstNonBlankText ==
    LET texts == SelectSeq(InterTagTexts(promptContent, 1),
                           LAMBDA t : t # <<>>)
    IN  (/\ TitleShown
         /\ IsMarkup(promptContent)
         /\ XmlTitleTag(promptContent) = <<>>
         /\ XmlRolePatterns(promptContent, 1) = <<>>)
            => IF texts = <<>>
               THEN \E date \in Dates : formData.title = DefaultTitle(date)
               ELSE formData.title = Limited(Head(texts))

\* The line without the one leading marker it is specified to lose: one to
\* six '#', or one '*' or '-', or digits and '.', in each case followed by
\* whitespace, which goes too.  A line without such a marker is kept whole.
WithoutLeadingMarker(line) ==
    LET h == FirstNotIn(line, 1, {"#"})
        d == FirstNotIn(line, 1, Digits)
        after(k) == SubSeq(line, FirstNotIn(line, k, SpaceChars), Len(line))
        spaceAt(k) == k <= Len(line) /\ IsSpace(line[k])
    IN  IF h >= 2 /\ h <= 7 /\ spaceAt(h) THEN Trim(after(h))
        ELSE IF line # <<>> /\ line[1] \in {"*", "-"} /\ spaceAt(2) THEN Trim(after(2))
        ELSE IF d >= 2 /\ d <= Len(line) /\ line[d] = "." /\ spaceAt(d + 1)
        THEN Trim(after(d + 1))
        ELSE Trim(line)

\* The characters the markers are written with.
MarkerChars == {"#", "*", "-", "."} \cup Digits

\* C11: on the plain-text path a first non-blank line that does not start
\* with '# Role:' (and has more than marker characters on it) gives the
\* title by losing one leading heading, list or numbered-list marker with
\* the whitespace after it and being trimmed; a line that does not begin
\* with a marker followed by whitespace is the title unchanged, and nothing
\* beyond that one marker is removed.
C11_OneMarkerStripped ==
    LET line == FirstNonBlankLine(promptContent)
    IN  (/\ TitleShown
         /\ ~IsBlank(promptContent)
         /\ ~IsMarkup(promptContent)
         /\ ~StartsWithAt(line, 1, RolePrefix)
         /\ \E i \in 1..Len(line) : line[i] \notin MarkerChars \cup SpaceChars)
            => formData.title = Limited(WithoutLeadingMarker(line))

\* The attributes that mark a role element, in their order of priority.
RoleAttributes ==
    <<<<"t", "i", "t", "l", "e">>, <<"n", "a", "m", "e">>, <<"i", "d">>,
      <<"t", "y", "p", "e">>>>

\* The title the element opened at position p of s is specified to give:
\* the tag carries, at any position among its attributes, the attribute attr
\* with the value 'role' in any letter case, and the text after the tag,
\* trimmed and without its role label, is the title.  Empty when the tag at
\* p is no such element or has no such text.
RoleElementTitle(s, p, attr) ==
    LET w == FirstNotIn(s, p + 1, WordChars)
        g == FirstIn(s, p + 1, {">"})
        e == FirstIn(s, g + 1, {"<"})
        n == Len(attr)
        carries == \E q \in w..(g - 1) :
                      /\ IsSpace(s[q])
                      /\ q + n + 7 <= g
                      /\ StartsWithAtCI(s, q + 1, attr \o <<"=">>)
                      /\ s[q + n + 2] \in {"\"", "'"}
                      /\ StartsWithAtCI(s, q + n + 3, <<"r", "o", "l", "e">>)
                      /\ s[q + n + 7] \in {"\"", "'"}
    IN  IF s[p] = "<" /\ w > p + 1 /\ g <= Len(s) /\ carries
        THEN Trim(StripRoleLabel(Trim(SubSeq(s, g + 1, e - 1))))
        ELSE <<>>

\* The positions of s where a role element with the attribute attr and a
\* title opens.
RoleElements(s, attr) ==
    {p \in 1..Len(s) : RoleElementTitle(s, p, attr) # <<>>}

\* The title of the role element chosen by attribute priority from
\* priority k on, the first in the document among those of one attribute;
\* empty when there is none.
RECURSIVE RoleElementChoice(_, _)
RoleElementChoice(s, k) ==
    IF k > Len(RoleAttributes) THEN <<>>
    ELSE IF RoleElements(s, RoleAttributes[k]) # {}
    THEN RoleElementTitle(s, Min(RoleElements(s, RoleAttributes[k])), RoleAttributes[k])
    ELSE RoleElementChoice(s, k + 1)

\* C12: on the markup path with no usable <title> content, if an element
\* carries a title, name, id or type attribute equal to 'role', in any letter
\* case and at any position among its attributes, followed by non-blank
\* text, the title is that text without its role label; of several such
\* elements the one chosen follows the priority title, name, id, type
\* whatever their order in the document, before any <section> or <role>
\* match.
C12_RoleAttributeAnywhere ==
    (/\ TitleShown
     /\ IsMarkup(promptContent)
     /\ XmlTitleTag(promptContent) = <<>>
     /\ RoleElementChoice(promptContent, 1) # <<>>)
        => formData.title = Limited(RoleElementChoice(promptContent, 1))

-----------------------------------------------------------------------------
(* Properties of validateConversationJson, on the error the watcher of     *)
(* conversationHistory stores right after a history was entered for        *)
(* promptType 'user'                                                       *)

Validated == lastAction = "editHistory" /\ formData.promptType = "user"

IsBlankText(text) == \A i \in 1..Len(text) : text[i] \in JsonWhitespace

\* The texts of the arrays of well-formed turns: written without whitespace,
\* indented, and with whitespace around them.
WellFormedTexts ==
    LET values == ArraysOf(WellFormedTurns, MaxTurns)
    IN  {Compact(v) : v \in values}
            \cup {Stringify(v, 0) : v \in values}
            \cup {<<" ">> \o Compact(v) \o <<"\n">> : v \in values}

\* C5: validateConversationJson returns no error for every JSON array
\* (the empty one included) whose elements are objects with a role among
\* 'user', 'assistant', 'system' and a non-empty string content, and for every
\* empty or whitespace-only input.
C5_WellFormedAccepted ==
    (/\ Validated
     /\ formData.conversationHistory \in WellFormedTexts \cup BlankTexts)
        => conversationFormatError = NoError

\* An indented history of two well-formed turns was entered and accepted.
C5_Witness ==
    /\ Validated
    /\ formData.conversationHistory =
          Stringify(Arr(<<UserTurn, AssistantTurn>>), 0)
    /\ conversationFormatError = NoError

\* The element has a member key whose value is not null, false, 0 or ''.
HasField(element, key) ==
    /\ element.k = "obj"
    /\ \E i \in 1..Len(element.members) :
          /\ element.members[i][1] = key
          /\ element.members[i][2] \notin {Null, Bool(FALSE), Num(0), Str("")}

LacksField(element) == ~HasField(element, "role") \/ ~HasField(element, "content")

\* The element has a role member that is one of the three role names.
HasValidRole(element) ==
    /\ element.k = "obj"
    /\ \E i \in 1..Len(element.members) :
          /\ element.members[i][1] = "role"
          /\ element.members[i][2] \in {Str("user"), Str("assistant"), Str("system")}

\* C6: for a non-blank text exactly one error is reported, in fixed priority:
\* the parse error if the text is not JSON; else 'must be an array' if the
\* parsed value is not an array; else the error of the failing element of
\* lowest index, numbered from 1, a missing or falsy role or content being
\* reported before an invalid role; failing elements after it change nothing.
C6_ErrorPriority ==
    LET history == formData.conversationHistory
        parsed == JsonParse(history)
        items == parsed.value.items
        failing == {i \in 1..Len(items) :
                       LacksField(items[i]) \/ ~HasValidRole(items[i])}
    IN  (Validated /\ ~IsBlankText(history)) =>
            conversationFormatError =
                IF ~parsed.ok THEN SyntaxErrorMessage
                ELSE IF parsed.value.k # "arr" THEN NotAnArrayMessage
                ELSE IF failing = {} THEN NoError
                ELSE IF LacksField(items[Min(failing)])
                THEN MissingFieldMessage(Min(failing))
                ELSE InvalidRoleMessage(Min(failing))

\* The first element is well-formed, the second lacks its content and has an
\* invalid role, and the missing field of message 2 is reported.
C6_Witness ==
    /\ Validated
    /\ formData.conversationHistory =
          Compact(Arr(<<UserTurn, Turn(Str("bogus"), Undefined)>>))
    /\ conversationFormatError = MissingFieldMessage(2)

\* C7: a non-blank input with no error parses to an array in which every
\* element is a record with a role among 'user', 'assistant', 'system' and a
\* content that is present and not empty; no array with an element whose
\* content is empty or absent, or whose role is anything else, is accepted.
C7_AcceptedIsWellFormed ==
    LET history == formData.conversationHistory
        parsed == JsonParse(history)
        items == parsed.value.items
    IN  (/\ Validated
         /\ ~IsBlankText(history)
         /\ conversationFormatError = NoError)
            => /\ parsed.ok
               /\ parsed.value.k = "arr"
               /\ \A i \in 1..Len(items) :
                     /\ HasValidRole(items[i])
                     /\ \E m \in 1..Len(items[i].members) :
                           /\ items[i].members[m][1] = "content"
                           /\ items[i].members[m][2] \notin {Null, Str("")}

\* A non-blank history of two elements was accepted.
C7_Witness ==
    /\ Validated
    /\ conversationFormatError = NoError
    /\ JsonParse(formData.conversationHistory).ok
    /\ JsonParse(formData.conversationHistory).value.k = "arr"
    /\ Len(JsonParse(formData.conversationHistory).value.items) = 2

-----------------------------------------------------------------------------
(* Properties of the dialog                                                *)

\* C8: after any sequence of history edits, prompt-type switches, clicks on
\* the format button (offered only while no format error is shown) and
\* re-openings, handleSave with promptType 'user' emits 'save' only if
\* validateConversationJson of the current conversationHistory returns no
\* error; with an invalid history nothing is emitted.
C8_SaveOnlyValidHistory ==
    (lastAction = "handleSave:emit" /\ formData.promptType = "user")
        => validateConversationJson(formData.conversationHistory) = NoError

\* handleSave emitted 'save' for promptType 'user' with a history entered.
C8_Witness ==
    /\ lastAction = "handleSave:emit"
    /\ formData.promptType = "user"
    /\ ~IsBlankText(formData.conversationHistory)
    /\ emitted.event = "save"
    /\ emitted.conversationHistory = TrimText(formData.conversationHistory)

\* C9 as stated: for every conversationHistory that is not valid JSON,
\* formatConversationJson sets conversationFormatError to its formatting
\* error, which is not empty, and leaves conversationHistory as it was.
C9_FormatReportsInvalid ==
    [][(lastAction' = "format" /\ ~JsonParse(formData.conversationHistory).ok)
          => /\ conversationFormatError' = CannotFormatMessage
             /\ conversationFormatError'.msg # ""
             /\ formData'.conversationHistory = formData.conversationHistory]_vars

\* C9 as amended: for every conversationHistory that has a non-whitespace
\* character and is not valid JSON, formatConversationJson sets
\* conversationFormatError to its formatting error, which is not empty, and
\* leaves conversationHistory as it was.
C9_FormatReportsInvalidNonBlank ==
    [][(/\ lastAction' = "format"
        /\ ~IsBlankText(formData.conversationHistory)
        /\ ~JsonParse(formData.conversationHistory).ok)
          => /\ conversationFormatError' = CannotFormatMessage
             /\ conversationFormatError'.msg # ""
             /\ formData'.conversationHistory = formData.conversationHistory]_vars

\* formatConversationJson was called on a non-blank text that is not JSON
\* and reported that it cannot format it.
C9_Witness ==
    /\ lastAction = "format"
    /\ ~IsBlankText(formData.conversationHistory)
    /\ ~JsonParse(formData.conversationHistory).ok
    /\ conversationFormatError = CannotFormatMessage

\* C13: after any sequence of addTag, removeTag and re-openings of the
\* dialog, formData.tags holds at most 10 entries, no two of them equal, and
\* every entry is a non-empty string without whitespace at its start or end.
C13_TagsWellFormed ==
    LET tags == formData.tags
    IN  /\ Len(tags) <= 10
        /\ \A i, j \in 1..Len(tags) : tags[i] = tags[j] => i = j
        /\ \A i \in 1..Len(tags) :
              /\ tags[i] # <<>>
              /\ ~IsSpace(tags[i][1])
              /\ ~IsSpace(tags[i][Len(tags[i])])

\* addTag ran with ten tags held and a new name typed with whitespace around
\* it, and added nothing.
C13_Witness ==
    /\ lastAction = "addTag"
    /\ Len(formData.tags) = 10
    /\ newTag # Trim(newTag)
    /\ Trim(newTag) # <<>>
    /\ Trim(newTag) \notin TagsHeld

\* C14: handleSave never emits 'save' when there is no prompt text to save,
\* that is when neither props.promptContent nor formData.content has a
\* character that is not whitespace (the condition under which the template
\* shows the content editor, left blank).
C14_NoSaveWithoutPromptText ==
    lastAction = "handleSave:emit"
        => ~(IsBlank(promptContent) /\ IsBlank(formData.content))

-----------------------------------------------------------------------------
(* Properties of the login view                                            *)

\* The steps that end handleLocalLogin or handleRegister.
FinishingSteps ==
    {Step("handleLocalLogin", o) : o \in LoginOutcomes}
        \cup {Step("handleRegister:login", o) : o \in LoginOutcomes}
        \cup {Step("handleRegister", o) : o \in {"refused", "failure", "thrown"}}

\* C15: a submit handler being started only while isSubmitting is false,
\* isSubmitting is true whenever a loginWithPassword or register call is
\* pending, the login after a successful registration included, and is false
\* once handleLocalLogin or handleRegister has finished, whatever the
\* outcome: success, reported failure or exception.
C15_SubmittingWhilePending ==
    /\ authCall # "none" => isSubmitting
    /\ lastStep \in FinishingSteps => ~isSubmitting

\* handleRegister has finished after its registration succeeded and the
\* login it awaits threw.
C15_Witness ==
    /\ lastStep = Step("handleRegister:login", "thrown")
    /\ authCall = "none"
    /\ ~isSubmitting

\* The finishing steps of a login or registration that did not succeed.
FailedSteps ==
    FinishingSteps \ {Step("handleLocalLogin", "success"),
                      Step("handleRegister:login", "success")}

\* C16: router.push('/') is executed only by onMounted with
\* authStore.isLoggedIn true or after a loginWithPassword call returned
\* success; a login that returns failure or throws, a registration that
\* fails or throws, and a registration attempted while registration is not
\* enabled (which calls authStore.register never) do not navigate and leave
\* a non-empty errorMessage.
C16_NavigationOnlyAfterLogin ==
    [][/\ routerPushes' # routerPushes
            => \/ lastStep'.step = "onMounted" /\ isLoggedIn
               \/ lastStep' \in {Step("handleLocalLogin", "success"),
                                 Step("handleRegister:login", "success")}
       /\ lastStep' \in FailedSteps
            => /\ routerPushes' = routerPushes
               /\ locationHref' = locationHref
               /\ errorMessage' # ""
       /\ lastStep' = Step("handleRegister", "refused")
            => authCall' = authCall /\ authCall' # "register"]_vars

\* A registration failed without an error text of its own: the view did not
\* navigate and shows the fallback message.
C16_Witness ==
    /\ lastStep = Step("handleRegister", "failure")
    /\ errorMessage = "registration failed, check the input"
    /\ routerPushes = <<>>
    /\ locationHref = LoginPage

\* The authorize URL the server has configured, the default one when it has
\* configured none or its configuration was not fetched.
ConfiguredAuthorizeUrl ==
    IF configCall = "resolved" /\ serverConfig.feishu_authorize_url # ""
    THEN serverConfig.feishu_authorize_url
    ELSE DEFAULT_FEISHU_AUTH_URL

\* C17: loginWithFeishu changes window.location only when feishu_enabled is
\* true and feishu_app_id and feishu_redirect_uri are both non-empty, and
\* then to a non-empty authorize URL: the configured one, or the default one
\* when the configured one is empty, authConfig holding a non-empty one
\* after any outcome of fetchAuthConfig; in every other case it sets an
\* errorMessage and leaves window.location as it was.
C17_FeishuRedirectOnlyConfigured ==
    [][/\ authConfig'.feishu_authorize_url # ""
       /\ lastStep'.step = "loginWithFeishu"
            => IF /\ authConfig.feishu_enabled
                  /\ authConfig.feishu_app_id # ""
                  /\ authConfig.feishu_redirect_uri # ""
               THEN /\ locationHref' # locationHref
                    /\ locationHref'[1] # ""
                    /\ locationHref'[1] = ConfiguredAuthorizeUrl
               ELSE /\ errorMessage' # ""
                    /\ locationHref' = locationHref]_vars

\* loginWithFeishu has redirected to the default authorize URL, the server
\* having configured none.
C17_Witness ==
    /\ lastStep.step = "loginWithFeishu"
    /\ configCall = "resolved"
    /\ serverConfig.feishu_authorize_url = ""
    /\ locationHref # LoginPage
    /\ locationHref[1] = DEFAULT_FEISHU_AUTH_URL

====
